---------------------------- MODULE Spec2Model ----------------------------
(***************************************************************************)
(* Two Streamlit programs that send personalised e-mails with certificates: *)
(*   dynamic_personalised_email_automation.py  (class EmailAutomation and  *)
(*       main(); actions D_*, specification SpecDynamic)                   *)
(*   final_email_automation.py  (the "Email Automation" menu; actions F_*, *)
(*       specification SpecFinal)                                          *)
(* One behaviour is one run of the script in which the recipient file is   *)
(* processed and "Send Emails" is clicked.  Text is a sequence of          *)
(* one-character strings; a spreadsheet cell is a record saying whether it *)
(* is a str and, if so, its text (an empty cell is the float NaN).         *)
(***************************************************************************)
EXTENDS Integers, Sequences, FiniteSets, TLC

(***************************************************************************)
(* Text helpers (Python str methods used by the two programs)              *)
(***************************************************************************)

\* str.lower() on one character of the alphabet the inputs are drawn from
LowerChar(c) ==
    CASE c = "A" -> "a"
      [] c = "B" -> "b"
      [] c = "N" -> "n"
      [] OTHER -> c

\* str.lower()
Lower(s) == [i \in 1..Len(s) |-> LowerChar(s[i])]

\* str.lstrip() / str.rstrip() / str.strip()
RECURSIVE LStrip(_)
LStrip(s) == IF s # <<>> /\ Head(s) = " " THEN LStrip(Tail(s)) ELSE s

RECURSIVE RStrip(_)
RStrip(s) ==
    IF s # <<>> /\ s[Len(s)] = " " THEN RStrip(SubSeq(s, 1, Len(s) - 1)) ELSE s

Strip(s) == RStrip(LStrip(s))

\* str.replace(" ", "")
RECURSIVE RemoveSpaces(_)
RemoveSpaces(s) ==
    IF s = <<>> THEN <<>>
    ELSE IF Head(s) = " " THEN RemoveSpaces(Tail(s))
    ELSE <<Head(s)>> \o RemoveSpaces(Tail(s))

\* ' '.join(text.split()): runs of blanks collapse to one, none at the ends
RECURSIVE CollapseSpaces(_)
CollapseSpaces(s) ==
    IF s = <<>> THEN <<>>
    ELSE IF Head(s) = " " /\ (Len(s) = 1 \/ s[2] = " ") THEN CollapseSpaces(Tail(s))
    ELSE <<Head(s)>> \o CollapseSpaces(Tail(s))

\* the Python test  needle in hay
Contains(hay, needle) ==
    \E i \in 0..(Len(hay) - Len(needle)) :
        \A j \in 1..Len(needle) : hay[i + j] = needle[j]

\* os.path.splitext(name)[0]: cut at the last dot unless only dots precede it
SplitextStem(name) ==
    LET dots == {i \in 1..Len(name) : name[i] = "."}
        last == CHOOSE i \in dots : \A j \in dots : j <= i
    IN  IF dots = {} \/ (\A j \in 1..(last - 1) : name[j] = ".")
        THEN name
        ELSE SubSeq(name, 1, last - 1)

\* a spreadsheet cell: a str with its text, or a float NaN (empty cell)
StrCell(t) == [isstr |-> TRUE, text |-> t]
NaNCell == [isstr |-> FALSE, text |-> <<>>]

\* str(x) on a cell
PyStr(cell) == IF cell.isstr THEN cell.text ELSE <<"n", "a", "n">>

(***************************************************************************)
(* EmailValidator.is_valid_email / is_valid_email                          *)
(***************************************************************************)
LocalChars == {"a", "b", "c", "x", "n", "d", "o", "A", "B", ".", "_", "%", "+", "-"}
DomainChars == {"a", "b", "c", "x", "n", "d", "o", "A", "B", ".", "-"}
Letters == {"a", "b", "c", "x", "n", "d", "o", "A", "B"}

\* pattern ^[a-zA-Z0-9._%+-]+@[a-zA-Z0-9.-]+\.[a-zA-Z]{2,}$ on a str
MatchesPattern(s) ==
    \E at \in 2..Len(s), dot \in 1..Len(s) :
        /\ s[at] = "@"
        /\ \A i \in 1..(at - 1) : s[i] \in LocalChars
        /\ dot > at + 1
        /\ s[dot] = "."
        /\ \A i \in (at + 1)..(dot - 1) : s[i] \in DomainChars
        /\ Len(s) - dot >= 2
        /\ \A i \in (dot + 1)..Len(s) : s[i] \in Letters


IsStrValid(cell) == cell.isstr /\ MatchesPattern(cell.text)

(***************************************************************************)
(* Inputs of one run                                                       *)
(***************************************************************************)
MaxRows == 2
MaxCerts == 2

\* retries = 3 in send_emails
MaxRetries == 3

Ana == <<"A", "n", "a">>
Bo == <<"B", "o">>
An == <<"a", "n">>
MailA == <<"a", "@", "x", ".", "c", "o">>
MailB == <<"b", "@", "x", ".", "c", "o">>
MailBad == <<"b", "a", "d">>

\* the cells of one spreadsheet row
RowCandidates ==
    { [name |-> StrCell(Ana), email |-> StrCell(MailA)],
      [name |-> StrCell(Bo), email |-> StrCell(MailB)],
      [name |-> StrCell(An), email |-> StrCell(MailB)],
      [name |-> StrCell(Bo), email |-> StrCell(MailBad)],
      [name |-> StrCell(Ana), email |-> NaNCell] }

SeqsUpTo(S, n) == UNION {[1..k -> S] : k \in 0..n}

\* header rows a sheet can have: the column names present, and whether one
\* more header is a number rather than a str
Headers ==
    { [cols |-> {"name", "email"}, num_header |-> FALSE],
      [cols |-> {"email"}, num_header |-> FALSE],
      [cols |-> {"name"}, num_header |-> FALSE],
      [cols |-> {"name", "email"}, num_header |-> TRUE] }

\* a row as the file holds it under the given columns
Project(r, cols) ==
    [name |-> IF "name" \in cols THEN r.name ELSE NaNCell,
     email |-> IF "email" \in cols THEN r.email ELSE NaNCell]

Sheets ==
    { [readable |-> FALSE, cols |-> {}, num_header |-> FALSE, rows |-> <<>>] }
    \cup
    { [readable |-> TRUE, cols |-> h.cols, num_header |-> h.num_header,
       rows |-> [i \in DOMAIN rs |-> Project(rs[i], h.cols)]] :
        h \in Headers, rs \in SeqsUpTo(RowCandidates, MaxRows) }

\* uploaded files: display name and byte content
CertCandidates ==
    { [name |-> <<"A", "n", "a", ".", "p", "d", "f">>, content |-> <<1>>],
      [name |-> <<"b", "o", ".", "p", "n", "g">>, content |-> <<2>>],
      [name |-> <<"a", "N", "a", " ", ".", "p", "d", "f">>, content |-> <<3>>] }

CertUploads == SeqsUpTo(CertCandidates, MaxCerts)

ConstUploads ==
    { <<>>, << [name |-> <<"x", ".", "p", "d", "f">>, content |-> <<9>>] >> }

\* a template pair is known by the placeholders it references; blank when the
\* subject or the content was left empty
Templates ==
    { [blank |-> FALSE, subject |-> {"email"}, content |-> {"name"}],
      [blank |-> FALSE, subject |-> {}, content |-> {"dept"}],
      [blank |-> TRUE, subject |-> {}, content |-> {}] }

(***************************************************************************)
(* State                                                                   *)
(***************************************************************************)
VARIABLES
    sheet,            \* the uploaded recipient file
    cert_files,       \* certificate_files / cert_files
    const_files,      \* additional_attachments / constant_attachments
    templates,        \* subject and content templates
    creds_given,      \* sender e-mail and app password both filled in
    data,             \* recipients_df / data
    upload_error,     \* st.error was shown by the upload step
    consumed,         \* upload streams already read to their end
    pc,               \* position in the script
    smtp_server,      \* automation.smtp_server (0 is None), else session id
    sessions_opened,  \* number of smtplib.SMTP(...) connections made
    open_sessions,    \* sessions connected and not yet closed
    pos,              \* position of the loop in the table (1-based)
    retries,          \* retries of send_emails
    certificates,     \* main: the (name, bytes) list read from certificate_files
    attachments,      \* main: the (name, bytes) list read from additional_attachments
    certificate,      \* send_emails: index of the matched certificate, 0 is None
    transport_log,    \* every message handed to send_message, in order
    outcome,          \* per table position: what the loop reported
    renders,          \* per table position: calls of str.format on the templates
    delays,           \* per table position: sleep(2) retry delays
    emails_sent,      \* emails_sent counter of final_email_automation.py
    handler_error,    \* what made the Send Emails handler call st.error, or "none"
    progress_value,   \* the value last passed to the progress bar, num / den
    summary           \* the counts the handler reported when the campaign ended

vars == <<sheet, cert_files, const_files, templates, creds_given, data,
          upload_error, consumed, pc, smtp_server, sessions_opened,
          open_sessions, pos, retries, certificates, attachments, certificate,
          transport_log, outcome,
          renders, delays, emails_sent, handler_error, progress_value,
          summary>>

inputs == <<sheet, cert_files, const_files, templates, creds_given>>

\* recipients_df = None / data = None
NoTable == [loaded |-> FALSE, cols |-> {}, num_header |-> FALSE, rows |-> <<>>]

\* the DataFrame pd.read_excel / pd.read_csv returns: index labels 0..n-1
ReadTable(sh) ==
    [loaded |-> TRUE, cols |-> sh.cols, num_header |-> sh.num_header,
     rows |-> [i \in DOMAIN sh.rows |->
                 [idx |-> i - 1, name |-> sh.rows[i].name, email |-> sh.rows[i].email]]]

\* a progress value as the quotient the code computes
Fraction(num, den) == [num |-> num, den |-> den]

\* nothing reported yet
NoSummary == [shown |-> FALSE, counts |-> {}]

InitCommon ==
    /\ sheet \in Sheets
    /\ cert_files \in CertUploads
    /\ const_files \in ConstUploads
    /\ templates \in Templates
    /\ data = NoTable
    /\ upload_error = FALSE
    /\ consumed = {}
    /\ pc = "upload"
    /\ smtp_server = 0
    /\ sessions_opened = 0
    /\ open_sessions = {}
    /\ pos = 1
    /\ retries = 0
    /\ certificates = <<>>
    /\ attachments = <<>>
    /\ certificate = 0
    /\ transport_log = <<>>
    /\ outcome = <<>>
    /\ renders = <<>>
    /\ delays = <<>>
    /\ emails_sent = 0
    /\ handler_error = "none"
    /\ progress_value = Fraction(0, 1)
    /\ summary = NoSummary

\* UploadedFile.read(): everything from the stream position to the end
ReadStream(file, id, done) == IF id \in done THEN <<>> ELSE file.content

\* str.format(**row) raises KeyError for a placeholder that is no column and
\* TypeError when a column label is not a str
RenderFails(tpl, table) ==
    \/ table.num_header
    \/ ~(tpl.subject \subseteq table.cols)
    \/ ~(tpl.content \subseteq table.cols)

\* st.progress(value) raises StreamlitAPIException outside [0.0, 1.0]
ProgressRaises(num, den) == num < 0 \/ num > den


\* row.to_dict().get(col, ''): the cell, or '' when the table has no such column
RowGet(table, row, col) ==
    IF col \in table.cols THEN row[col] ELSE StrCell(<<>>)

\* the log entry of one smtp send_message call
Sent(p, row, to, cert, cert_content, consts, session, accepted) ==
    [pos |-> p, idx |-> row.idx, to |-> to, cert |-> cert,
     cert_content |-> cert_content, consts |-> consts, session |-> session,
     accepted |-> accepted]

Blank(n) == [i \in 1..n |-> "pending"]
Zeros(n) == [i \in 1..n |-> 0]

(***************************************************************************)
(* dynamic_personalised_email_automation.py                                *)
(***************************************************************************)

\* EmailAutomation._clean_text
D_clean_text(cell) ==
    IF cell.isstr THEN CollapseSpaces(Strip(cell.text)) ELSE PyStr(cell)

\* recipients_df[col] = recipients_df[col].apply(automation._clean_text)
D_CleanColumn(table, col) ==
    [table EXCEPT !.rows =
        [i \in DOMAIN table.rows |->
            [table.rows[i] EXCEPT ![col] = StrCell(D_clean_text(table.rows[i][col]))]]]

\* recipients_df[recipients_df['email'].apply(EmailValidator.is_valid_email)]
D_KeepValid(table) ==
    [table EXCEPT !.rows = SelectSeq(table.rows, LAMBDA r : IsStrValid(r.email))]

\* main, the upload step: the table left in recipients_df and whether the
\* except branch reported an error
D_ProcessUpload(sh) ==
    IF ~sh.readable THEN [table |-> NoTable, error |-> TRUE]
    ELSE IF sh.num_header THEN [table |-> ReadTable(sh), error |-> TRUE]
    ELSE IF "name" \notin sh.cols THEN [table |-> ReadTable(sh), error |-> TRUE]
    ELSE IF "email" \notin sh.cols
         THEN [table |-> D_CleanColumn(ReadTable(sh), "name"), error |-> TRUE]
    ELSE LET first == D_KeepValid(D_CleanColumn(D_CleanColumn(ReadTable(sh), "name"), "email"))
             again == D_KeepValid(D_CleanColumn(D_CleanColumn(first, "name"), "email"))
         IN  [table |-> again, error |-> FALSE]

D_Upload ==
    /\ pc = "upload"
    /\ data' = D_ProcessUpload(sheet).table
    /\ upload_error' = D_ProcessUpload(sheet).error
    /\ pc' = "click"
    /\ UNCHANGED <<inputs, consumed, smtp_server, sessions_opened, open_sessions,
                   pos, retries, certificates, attachments, certificate,
                   transport_log, outcome, renders, delays, emails_sent,
                   handler_error, progress_value, summary>>

\* [(automation._clean_text(str(file.name)), file.read()) for file in files]
D_ReadFiles(files, kind, done) ==
    [i \in DOMAIN files |->
        [name |-> D_clean_text(StrCell(files[i].name)),
         content |-> ReadStream(files[i], <<kind, i>>, done)]]

\* main, "Send Emails" clicked: the three guards, then the uploads are read
D_ClickSend ==
    /\ pc = "click"
    /\ IF ~data.loaded \/ cert_files = <<>> \/ templates.blank
       THEN /\ handler_error' = "guard"
            /\ pc' = "finally"
            /\ UNCHANGED <<certificates, attachments, consumed>>
       ELSE /\ certificates' = D_ReadFiles(cert_files, "cert", consumed)
            /\ attachments' = D_ReadFiles(const_files, "const", consumed)
            /\ consumed' = consumed \cup {<<"cert", i>> : i \in DOMAIN cert_files}
                                    \cup {<<"const", i>> : i \in DOMAIN const_files}
            /\ pc' = "setup"
            /\ UNCHANGED handler_error
    /\ UNCHANGED <<inputs, data, upload_error, smtp_server, sessions_opened,
                   open_sessions, pos, retries, certificate, transport_log,
                   outcome, renders, delays, emails_sent, progress_value, summary>>

\* EmailAutomation.setup_smtp, then the start of send_emails
D_SetupSmtp ==
    /\ pc = "setup"
    /\ \E result \in {"ok", "connect_failed", "starttls_failed", "login_failed"} :
         /\ IF result = "connect_failed"
            THEN UNCHANGED <<smtp_server, sessions_opened, open_sessions>>
            ELSE /\ smtp_server' = sessions_opened + 1
                 /\ sessions_opened' = sessions_opened + 1
                 /\ open_sessions' = open_sessions \cup {sessions_opened + 1}
         /\ IF result = "ok"
            THEN /\ pc' = "row"
                 /\ outcome' = Blank(Len(data.rows))
                 /\ renders' = Zeros(Len(data.rows))
                 /\ delays' = Zeros(Len(data.rows))
                 /\ progress_value' = Fraction(0, 1)
                 /\ UNCHANGED handler_error
            ELSE /\ pc' = "finally"
                 /\ handler_error' = "setup"
                 /\ UNCHANGED <<outcome, renders, delays, progress_value>>
    /\ UNCHANGED <<inputs, data, upload_error, consumed, pos, retries,
                   certificates, attachments, certificate, transport_log,
                   emails_sent, summary>>

\* EmailAutomation.match_certificate: index of the first certificate whose
\* lower-cased name contains the lower-cased, stripped recipient name; 0 is None
D_match_certificate(certs, recipient_name) ==
    LET key == Strip(Lower(recipient_name))
        hits == {i \in DOMAIN certs : Contains(Lower(certs[i].name), key)}
    IN  IF hits = {} THEN 0 ELSE CHOOSE i \in hits : \A j \in hits : i <= j

\* main, st.success("Email campaign completed successfully!"): no counts
D_Summary == [shown |-> TRUE, counts |-> {}]

\* send_emails, top of the for loop: the row's name and email, the match; after
\* the last row send_emails returns and main reports success
D_NextRow ==
    /\ pc = "row"
    /\ IF pos > Len(data.rows)
       THEN /\ pc' = "finally"
            /\ summary' = D_Summary
            /\ UNCHANGED <<certificate, retries, handler_error>>
       ELSE LET row == data.rows[pos]
                name == RowGet(data, row, "name")
                email == RowGet(data, row, "email")
            IN  IF ~name.isstr \/ ~email.isstr
                THEN /\ pc' = "finally"
                     /\ handler_error' = "raised"
                     /\ UNCHANGED <<certificate, retries, summary>>
                ELSE /\ certificate' = D_match_certificate(certificates, Strip(name.text))
                     /\ retries' = MaxRetries
                     /\ pc' = "attempt"
                     /\ UNCHANGED <<handler_error, summary>>
    /\ UNCHANGED <<inputs, data, upload_error, consumed, smtp_server,
                   sessions_opened, open_sessions, pos, certificates, attachments,
                   transport_log, outcome, renders, delays, emails_sent,
                   progress_value>>

\* a mutation of D_SendSession: a connection is made for every send
D_SendSessionRebuilt(server, opened) == [session |-> opened + 1, opened |-> opened + 1]

\* self.smtp_server.send_message(message): the session the message goes through
D_SendSession(server, opened) == [session |-> server, opened |-> opened]

\* send_emails, one pass of the while loop
D_Attempt ==
    /\ pc = "attempt"
    /\ retries > 0
    /\ LET row == data.rows[pos]
           via == D_SendSession(smtp_server, sessions_opened)
           entry(ok) ==
               Sent(pos, row, RowGet(data, row, "email"), certificate,
                    IF certificate = 0 THEN <<>> ELSE certificates[certificate].content,
                    [i \in DOMAIN attachments |-> attachments[i].content],
                    via.session, ok)
       IN  \E accepted \in BOOLEAN :
             LET rendered == ~RenderFails(templates, data)
                 raised == \/ ~rendered
                           \/ ~accepted
                           \/ ProgressRaises(row.idx + 1, Len(data.rows))
             IN  /\ rendered \/ accepted
                 /\ progress_value' = IF rendered /\ accepted
                                      THEN Fraction(row.idx + 1, Len(data.rows))
                                      ELSE progress_value
                 /\ renders' = [renders EXCEPT ![pos] = @ + 1]
                 /\ transport_log' = IF rendered THEN Append(transport_log, entry(accepted))
                                     ELSE transport_log
                 /\ sessions_opened' = IF rendered THEN via.opened ELSE sessions_opened
                 /\ open_sessions' = IF rendered THEN open_sessions \cup {via.session}
                                     ELSE open_sessions
                 /\ IF ~raised
                    THEN /\ outcome' = [outcome EXCEPT ![pos] = "sent"]
                         /\ pos' = pos + 1
                         /\ pc' = "row"
                         /\ UNCHANGED <<retries, delays>>
                    ELSE /\ retries' = retries - 1
                         /\ IF retries - 1 > 0
                            THEN /\ delays' = [delays EXCEPT ![pos] = @ + 1]
                                 /\ UNCHANGED <<outcome, pos, pc>>
                            ELSE /\ outcome' = [outcome EXCEPT ![pos] = "failed"]
                                 /\ pos' = pos + 1
                                 /\ pc' = "row"
                                 /\ UNCHANGED delays
    /\ UNCHANGED <<inputs, data, upload_error, consumed, smtp_server, certificates,
                   attachments, certificate, emails_sent, handler_error, summary>>

\* a mutation of D_ShouldQuit: quit() only after a campaign that raised nothing
D_ShouldQuitOnSuccess(server, erred) == server # 0 /\ ~erred

\* main, finally: if 'automation' in locals() and automation.smtp_server
D_ShouldQuit(server, erred) == server # 0

D_Finally ==
    /\ pc = "finally"
    /\ open_sessions' = IF D_ShouldQuit(smtp_server, handler_error # "none")
                        THEN open_sessions \ {smtp_server}
                        ELSE open_sessions
    /\ pc' = "done"
    /\ UNCHANGED <<inputs, data, upload_error, consumed, smtp_server,
                   sessions_opened, pos, retries, certificates, attachments,
                   certificate, transport_log, outcome, renders, delays,
                   emails_sent, handler_error, progress_value, summary>>

InitDynamic == creds_given = TRUE /\ InitCommon

NextDynamic == D_Upload \/ D_ClickSend \/ D_SetupSmtp \/ D_NextRow \/ D_Attempt \/ D_Finally

SpecDynamic == InitDynamic /\ [][NextDynamic]_vars


(***************************************************************************)
(* final_email_automation.py, menu "Email Automation"                      *)
(***************************************************************************)

\* data[data["is_valid_email"]] after data["is_valid_email"] = ...apply(...)
F_KeepValid(table) ==
    [table EXCEPT !.rows = SelectSeq(table.rows, LAMBDA r : IsStrValid(r.email)),
                  !.cols = table.cols \cup {"is_valid_email"}]

\* the upload step: the table left in data and whether st.error was shown
F_ProcessUpload(sh) ==
    IF ~sh.readable THEN [table |-> NoTable, error |-> TRUE]
    ELSE IF sh.num_header THEN [table |-> ReadTable(sh), error |-> TRUE]
    ELSE IF "name" \notin sh.cols \/ "email" \notin sh.cols
         THEN [table |-> NoTable, error |-> TRUE]
    ELSE IF \E i \in DOMAIN sh.rows : ~sh.rows[i].email.isstr
         THEN [table |-> ReadTable(sh), error |-> TRUE]
    ELSE [table |-> F_KeepValid(ReadTable(sh)),
          error |-> F_KeepValid(ReadTable(sh)).rows = <<>>]

F_Upload ==
    /\ pc = "upload"
    /\ data' = F_ProcessUpload(sheet).table
    /\ upload_error' = F_ProcessUpload(sheet).error
    /\ pc' = "click"
    /\ UNCHANGED <<inputs, consumed, smtp_server, sessions_opened, open_sessions,
                   pos, retries, certificates, attachments, certificate,
                   transport_log, outcome, renders, delays, emails_sent,
                   handler_error, progress_value, summary>>

\* os.path.splitext(cert.name)[0].strip().lower().replace(" ", "")
F_CertKey(file_name) == RemoveSpaces(Lower(Strip(SplitextStem(file_name))))

\* str(row["name"]).strip().lower().replace(" ", "")
F_NameKey(cell) == RemoveSpaces(Lower(Strip(PyStr(cell))))

\* the matched_files dict: for each key the index of the last file stored under it
F_matched_files(files) ==
    [k \in {F_CertKey(files[i].name) : i \in DOMAIN files} |->
        CHOOSE i \in DOMAIN files :
            /\ F_CertKey(files[i].name) = k
            /\ \A j \in DOMAIN files : F_CertKey(files[j].name) = k => j <= i]

\* a mutation of F_Lookup: the containment test of match_certificate
F_LookupContains(key, files) ==
    LET hits == {i \in DOMAIN files : Contains(Lower(files[i].name), key)}
    IN  IF hits = {} THEN 0 ELSE CHOOSE i \in hits : \A j \in hits : i <= j

\* if name in matched_files: ... matched_files[name]; 0 when absent
F_Lookup(key, files) ==
    IF key \in DOMAIN F_matched_files(files) THEN F_matched_files(files)[key] ELSE 0

\* "Send Emails" clicked: the two guards
F_ClickSend ==
    /\ pc = "click"
    /\ IF ~creds_given \/ ~data.loaded \/ data.rows = <<>>
       THEN /\ handler_error' = "guard"
            /\ pc' = "done"
            /\ UNCHANGED <<outcome, progress_value>>
       ELSE /\ outcome' = Blank(Len(data.rows))
            /\ progress_value' = Fraction(0, 1)
            /\ pc' = "row"
            /\ UNCHANGED handler_error
    /\ UNCHANGED <<inputs, data, upload_error, consumed, smtp_server,
                   sessions_opened, open_sessions, pos, retries, certificates,
                   attachments, certificate, transport_log, renders, delays,
                   emails_sent, summary>>

\* one pass of  for index, row in data.iterrows()  inside the handler's try
F_Row ==
    /\ pc = "row"
    /\ pos <= Len(data.rows)
    /\ LET row == data.rows[pos]
           hit == F_Lookup(F_NameKey(row.name), cert_files)
           bar == ProgressRaises(row.idx + 1, Len(data.rows))
           entry(ok) ==
               Sent(pos, row, row.email, hit,
                    ReadStream(cert_files[hit], <<"cert", hit>>, consumed),
                    [i \in DOMAIN const_files |->
                        ReadStream(const_files[i], <<"const", i>>, consumed)],
                    sessions_opened + 1, ok)
           read == consumed \cup {<<"cert", hit>>}
                            \cup {<<"const", i>> : i \in DOMAIN const_files}
       IN  IF hit = 0
           THEN /\ outcome' = [outcome EXCEPT ![pos] = "skipped"]
                /\ pos' = pos + 1
                /\ pc' = IF bar THEN "done" ELSE "row"
                /\ handler_error' = IF bar THEN "raised" ELSE "none"
                /\ progress_value' = Fraction(row.idx + 1, Len(data.rows))
                /\ UNCHANGED <<consumed, sessions_opened, transport_log, emails_sent>>
           ELSE IF RenderFails(templates, data)
           THEN /\ pc' = "done"
                /\ handler_error' = "raised"
                /\ UNCHANGED <<consumed, sessions_opened, transport_log,
                               emails_sent, outcome, pos, progress_value>>
           ELSE \E result \in {"sent", "connect_failed", "login_failed", "send_failed"} :
                  /\ consumed' = read
                  /\ sessions_opened' = IF result = "connect_failed"
                                        THEN sessions_opened
                                        ELSE sessions_opened + 1
                  /\ transport_log' =
                        IF result \in {"sent", "send_failed"}
                        THEN Append(transport_log, entry(result = "sent"))
                        ELSE transport_log
                  /\ IF result = "sent"
                     THEN /\ emails_sent' = emails_sent + 1
                          /\ outcome' = [outcome EXCEPT ![pos] = "sent"]
                          /\ pos' = pos + 1
                          /\ pc' = IF bar THEN "done" ELSE "row"
                          /\ handler_error' = IF bar THEN "raised" ELSE "none"
                          /\ progress_value' = Fraction(row.idx + 1, Len(data.rows))
                     ELSE /\ pc' = "done"
                          /\ handler_error' = "raised"
                          /\ UNCHANGED <<emails_sent, outcome, pos, progress_value>>
    /\ UNCHANGED <<inputs, data, upload_error, smtp_server, open_sessions, retries,
                   certificates, attachments, certificate, renders, delays,
                   summary>>

\* st.success(f"Emails sent: {emails_sent}/{total_recipients}")
F_Summary(sent, total) ==
    [shown |-> TRUE, counts |-> {<<"sent", sent>>, <<"total", total>>}]

\* after the loop: progress.progress(1.0) and the "Emails sent" summary
F_Finish ==
    /\ pc = "row"
    /\ pos > Len(data.rows)
    /\ pc' = "done"
    /\ progress_value' = Fraction(1, 1)
    /\ summary' = F_Summary(emails_sent, Len(data.rows))
    /\ UNCHANGED <<inputs, data, upload_error, consumed, smtp_server,
                   sessions_opened, open_sessions, pos, retries, certificates,
                   attachments, certificate, transport_log, outcome, renders,
                   delays, emails_sent, handler_error>>

InitFinal == creds_given \in BOOLEAN /\ InitCommon

NextFinal == F_Upload \/ F_ClickSend \/ F_Row \/ F_Finish

SpecFinal == InitFinal /\ [][NextFinal]_vars


(***************************************************************************)
(* Properties                                                              *)
(***************************************************************************)

\* the messages handed to the transport for table position p, in order
EntriesOf(p) == SelectSeq(transport_log, LAMBDA e : e.pos = p)

\* the name of the row at table position p, as the loops read it
NameAt(p) == RowGet(data, data.rows[p], "name")

\* some uploaded certificate's normalized stem equals the normalized name
HasExactCertificate(p) ==
    \E i \in DOMAIN cert_files : F_CertKey(cert_files[i].name) = F_NameKey(NameAt(p))

\* a template placeholder names no column of the table
MissingPlaceholder == ~((templates.subject \cup templates.content) \subseteq data.cols)

\* C1: a failure while processing one recipient never aborts the campaign:
\* when the handler has finished, no row after the one the loop last worked
\* on is left unprocessed (stated for a table whose upload step reported no
\* error).
C1_FailureNeverAborts ==
    (pc = "done" /\ ~upload_error) =>
        \A q \in DOMAIN outcome : q > pos => outcome[q] # "pending"

\* C2: a row whose template references an absent placeholder is skipped as
\* an invalid-template outcome without retry: once the row is finished the
\* templates were rendered exactly once for it, no retry delay elapsed, no
\* message was handed to the transport for it, and it is not reported as a
\* failed send (stated for a table whose upload step reported no error).
C2_TemplateErrorNotRetried ==
    \A p \in DOMAIN outcome :
        (~upload_error /\ MissingPlaceholder /\ outcome[p] # "pending") =>
            /\ renders[p] = 1
            /\ delays[p] = 0
            /\ EntriesOf(p) = <<>>
            /\ outcome[p] = "skipped_invalid_template"

\* C3: no message is ever handed to the transport for a row whose email
\* fails the EmailValidator pattern, whatever happened in the upload step
\* (stated for the rows whose email cell holds text).
C3_OnlyValidatedRowsSent ==
    \A i \in DOMAIN transport_log :
        transport_log[i].to.isstr => MatchesPattern(transport_log[i].to.text)

\* the recipients and certificates of the example of C4
C4_Example ==
    /\ data.loaded
    /\ [p \in DOMAIN data.rows |-> data.rows[p].name] = <<StrCell(Ana), StrCell(Bo)>>
    /\ [i \in DOMAIN cert_files |-> cert_files[i].name]
          = << <<"A", "n", "a", ".", "p", "d", "f">> >>

C5_RetryBudget ==
    ~upload_error =>
    \A p \in DOMAIN outcome :
        LET es == EntriesOf(p)
            acc == {j \in DOMAIN es : es[j].accepted}
            first == CHOOSE j \in acc : \A i \in acc : j <= i
        IN  /\ Len(es) <= MaxRetries
            /\ (outcome[p] # "pending" /\ acc # {}) =>
                  /\ outcome[p] = "sent"
                  /\ Len(es) = first
                  /\ delays[p] = first - 1

\* C6: a campaign of EmailAutomation opens the transport session once, and
\* every send attempt of every recipient goes through that one session, which
\* stays open while the loop runs.
C6_OneSessionPerCampaign ==
    /\ sessions_opened <= 1
    /\ \A i \in DOMAIN transport_log :
          transport_log[i].session = smtp_server /\ smtp_server = 1
    /\ pc \in {"row", "attempt"} => sessions_opened = 1 /\ open_sessions = {smtp_server}

\* C6 witness: a recipient failed after three send attempts and a later
\* recipient's message went through the same session
C6_Witness ==
    \E p \in DOMAIN outcome, i \in DOMAIN transport_log :
        /\ outcome[p] = "failed"
        /\ Len(EntriesOf(p)) = 3
        /\ transport_log[i].pos > p
        /\ transport_log[i].session = 1

\* C7: when setup_smtp fails no send is attempted for any recipient, and
\* when the "Send Emails" handler has finished, by whichever path, no
\* session is left open.
C7_SetupFailureAbortsAndSessionClosed ==
    /\ handler_error = "setup" => transport_log = <<>> /\ outcome = <<>>
    /\ pc = "done" => open_sessions = {}

\* C7 witness: setup failed after the connection was made, and the handler
\* has finished
C7_Witness ==
    /\ pc = "done"
    /\ handler_error = "setup"
    /\ sessions_opened = 1
    /\ data.rows # <<>>

\* C8: if the upload step reported an input error, clicking "Send Emails"
\* opens no transport session and hands no message to the transport.
C8_InputErrorBlocksSend ==
    upload_error => sessions_opened = 0 /\ transport_log = <<>>

\* C9: every message handed to the transport carries every constant
\* attachment with the complete bytes of the uploaded file (stated for a
\* table whose upload step reported no error).
C9_ConstantAttachmentsComplete ==
    \A i \in DOMAIN transport_log :
        ~upload_error =>
        transport_log[i].consts = [j \in DOMAIN const_files |-> const_files[j].content]

\* C10: a certificate goes with a recipient's message only when its
\* normalized file stem equals the recipient's normalized name (stated for
\* a table whose upload step reported no error).
C10_ExactMatchOnly ==
    \A i \in DOMAIN transport_log :
        LET e == transport_log[i]
        IN  (~upload_error /\ e.cert # 0) =>
                F_CertKey(cert_files[e.cert].name) = F_NameKey(NameAt(e.pos))


\* the uploaded certificates whose normalized stem equals the normalized
\* name of the row at table position p, by upload position
ExactCertificates(p) ==
    {i \in DOMAIN cert_files : F_CertKey(cert_files[i].name) = F_NameKey(NameAt(p))}

\* C11: when several uploaded certificates match a recipient, the message
\* carries the file that is the first of them in upload order (stated for a
\* table whose upload step reported no error).
C11_FirstMatchInUploadOrder ==
    \A i \in DOMAIN transport_log :
        LET e == transport_log[i]
        IN  (~upload_error /\ ExactCertificates(e.pos) # {}) =>
                /\ e.cert \in DOMAIN cert_files
                /\ \E k \in ExactCertificates(e.pos) :
                      /\ \A j \in ExactCertificates(e.pos) : k <= j
                      /\ cert_files[e.cert] = cert_files[k]


\* the number of rows the loop left with the outcome kind
CountOutcome(kind) == Cardinality({p \in DOMAIN outcome : outcome[p] = kind})

\* C12: when a campaign has ended with its summary, every recipient of the
\* table has a terminal outcome among sent, skipped and failed, and the
\* summary reports a count for each of the three kinds that is the number of
\* recipients with that outcome, so the counts sum to the number of
\* recipients (stated for a table whose upload step reported no error).
C12_SummaryCountsOutcomes ==
    (summary.shown /\ ~upload_error) =>
        /\ \A p \in DOMAIN outcome : outcome[p] \in {"sent", "skipped", "failed"}
        /\ \A kind \in {"sent", "skipped", "failed"} :
               <<kind, CountOutcome(kind)>> \in summary.counts

\* C13: in send_emails the transport accepts at most one message per row:
\* once send_message has returned for a row, no further message is handed to
\* the transport for that row, whatever the index labels of the table
\* (stated for a table whose upload step reported no error).
C13_NoSendAfterAcceptedSend ==
    ~upload_error =>
        \A p \in DOMAIN data.rows :
            LET es == EntriesOf(p)
            IN  \A j \in DOMAIN es : es[j].accepted => j = Len(es)

\* C14: the value passed to the progress bar, (index label + 1) / number of
\* rows, always lies within [0, 1], for every table that remains after the
\* invalid rows were removed (stated for a table whose upload step reported no
\* error).
C14_ProgressWithinUnitInterval ==
    ~upload_error =>
        /\ 0 <= progress_value.num
        /\ progress_value.num <= progress_value.den

=============================================================================
